---- MODULE Spec2Model ----
(***************************************************************************)
(* Model of verification/verify_background_picker.py: one linear run() of  *)
(* a headless-browser smoke check, repeated MaxRuns times against a        *)
(* nondeterministically chosen environment (application under test, disk,  *)
(* browser driver).                                                        *)
(*                                                                         *)
(* Library semantics the model relies on (playwright.sync_api):            *)
(*  - leaving `with sync_playwright()` stops the driver, which terminates  *)
(*    every browser it launched, and does not suppress an exception;       *)
(*  - expect(locator).to_be_enabled(timeout=...) raises AssertionError     *)
(*    when the timeout elapses;                                            *)
(*  - page.goto raises Error when the connection is refused and            *)
(*    TimeoutError (a subclass of Error) when navigation times out;        *)
(*  - Locator.is_visible() is strict: it returns False for no match, the   *)
(*    visibility of the element for one match, and raises Error (strict    *)
(*    mode violation) when the locator resolves to several elements.       *)
(***************************************************************************)
EXTENDS Integers, Sequences, FiniteSets, TLC

VARIABLES pc, env, browserAlive, launched, pages, stdout, fs, fsAtStart,
          exc, propagated, status, attempted, done, run

vars == <<pc, env, browserAlive, launched, pages, stdout, fs, fsAtStart,
          exc, propagated, status, attempted, done, run>>

\* ---------------------------------------------------------------- bounds
MaxRuns == 2
MaxElems == 2

\* ------------------------------------------------------ program constants
ExpectTimeout == 20000
TargetUrl == "http://localhost:5173/"
ScreenshotPath == "verification/verification.png"
FailLine == "FAIL: Background picker found on start screen"
PassLine == "PASS: Background picker not on start screen"
SavedLine == "Screenshot saved."

\* ------------------------------------------------------------ environment
\* Milliseconds after navigation at which the button enables, if it does.
EnableTimes == {0, 5000, 25000}

\* Elements matching get_by_text("Choose Background"): one visibility flag each.
ElemSeqs == UNION {[1..n -> BOOLEAN] : n \in 0..MaxElems}

Envs == [launchOk : BOOLEAN, pageOk : BOOLEAN,
         nav : {"ok", "refused", "timeout"},
         btnEnables : BOOLEAN, enableAt : EnableTimes,
         cb : ElemSeqs, shotOk : BOOLEAN, closeOk : BOOLEAN]

\* ------------------------------------------------------ exception classes
\* playwright TimeoutError <: playwright Error <: Exception; AssertionError <: Exception
IsInstance(e, cls) ==
    \/ e = cls
    \/ e = "TimeoutError" /\ cls = "Error"
    \/ e # "none" /\ cls = "Exception"

\* ---------------------------------------------------------- library calls
\* The button is enabled at some instant before the timeout of the wait.
EnabledInTime(e) == e.btnEnables /\ e.enableAt < ExpectTimeout

to_be_enabled_nowait(e) == "none"
to_be_enabled_timeouterror(e) == IF EnabledInTime(e) THEN "none" ELSE "TimeoutError"
\* expect(start_btn).to_be_enabled(timeout=20000): the exception it raises.
to_be_enabled(e) == IF EnabledInTime(e) THEN "none" ELSE "AssertionError"

goto_swallow(nav) == "none"
\* page.goto(TargetUrl): the exception it raises.
goto(nav) == CASE nav = "ok" -> "none"
               [] nav = "refused" -> "Error"
               [] nav = "timeout" -> "TimeoutError"

\* page.get_by_text("Choose Background").is_visible()
is_visible(elems) ==
    IF Len(elems) > 1 THEN [raised |-> "Error", value |-> FALSE]
    ELSE IF Len(elems) = 0 THEN [raised |-> "none", value |-> FALSE]
    ELSE [raised |-> "none", value |-> elems[1]]

screenshot_versioned(files, path, data) ==
    files \cup {[path |-> path \o ToString(data), data |-> data]}
\* page.screenshot(path=...): the file at path is created or replaced.
screenshot(files, path, data) ==
    {f \in files : f.path # path} \cup {[path |-> path, data |-> data]}

stop_leak(alive) == alive
\* sync_playwright().__exit__: the driver stops and its browsers with it.
stop(alive) == FALSE

exit_status_zero(e) == 0
\* Interpreter exit status of `run()` called at module level.
exit_status(e) == IF e = "none" THEN 0 ELSE 1

Successor_print_first(s) ==
    CASE s = "launch" -> "new_page"
      [] s = "new_page" -> "goto"
      [] s = "goto" -> "expect"
      [] s = "expect" -> "check"
      [] s = "check" -> "print_saved"
      [] s = "print_saved" -> "screenshot"
      [] s = "screenshot" -> "close"
      [] s = "close" -> "with_exit"
\* Statement that follows statement s inside the with block.
Successor(s) ==
    CASE s = "launch" -> "new_page"
      [] s = "new_page" -> "goto"
      [] s = "goto" -> "expect"
      [] s = "expect" -> "check"
      [] s = "check" -> "screenshot"
      [] s = "screenshot" -> "print_saved"
      [] s = "print_saved" -> "close"
      [] s = "close" -> "with_exit"

\* ------------------------------------------------------------------- Init
Init ==
    /\ pc = "launch"
    /\ env \in Envs
    /\ browserAlive = FALSE
    /\ launched = 0
    /\ pages = 0
    /\ stdout = <<>>
    /\ fs = {}
    /\ fsAtStart = {}
    /\ exc = "none"
    /\ propagated = "none"
    /\ status = -1
    /\ attempted = <<>>
    /\ done = <<>>
    /\ run = 1

\* --------------------------------------------------------------- helpers
\* Statement s completes: control moves to the next statement.
Complete(s) ==
    /\ attempted' = Append(attempted, s)
    /\ done' = Append(done, s)
    /\ pc' = Successor(s)
    /\ exc' = exc

\* Statement s raises e: control leaves the with block through __exit__.
Raise(s, e) ==
    /\ attempted' = Append(attempted, s)
    /\ done' = done
    /\ pc' = "with_exit"
    /\ exc' = e

\* ---------------------------------------------------------------- actions
Launch ==
    /\ pc = "launch"
    /\ IF env.launchOk
       THEN /\ Complete("launch")
            /\ browserAlive' = TRUE
            /\ launched' = launched + 1
       ELSE /\ Raise("launch", "Error")
            /\ UNCHANGED <<browserAlive, launched>>
    /\ UNCHANGED <<env, pages, stdout, fs, fsAtStart, propagated, status, run>>

NewPage ==
    /\ pc = "new_page"
    /\ IF env.pageOk
       THEN /\ Complete("new_page")
            /\ pages' = pages + 1
       ELSE /\ Raise("new_page", "Error")
            /\ UNCHANGED pages
    /\ UNCHANGED <<env, browserAlive, launched, stdout, fs, fsAtStart,
                   propagated, status, run>>

Goto ==
    /\ pc = "goto"
    /\ IF goto(env.nav) = "none"
       THEN Complete("goto")
       ELSE Raise("goto", goto(env.nav))
    /\ UNCHANGED <<env, browserAlive, launched, pages, stdout, fs, fsAtStart,
                   propagated, status, run>>

ExpectEnabled ==
    /\ pc = "expect"
    /\ IF to_be_enabled(env) = "none"
       THEN Complete("expect")
       ELSE Raise("expect", to_be_enabled(env))
    /\ UNCHANGED <<env, browserAlive, launched, pages, stdout, fs, fsAtStart,
                   propagated, status, run>>

CheckVisible ==
    /\ pc = "check"
    /\ LET r == is_visible(env.cb) IN
       IF r.raised # "none"
       THEN /\ Raise("check", r.raised)
            /\ UNCHANGED stdout
       ELSE /\ Complete("check")
            /\ stdout' = Append(stdout, IF r.value THEN FailLine ELSE PassLine)
    /\ UNCHANGED <<env, browserAlive, launched, pages, fs, fsAtStart,
                   propagated, status, run>>

Screenshot ==
    /\ pc = "screenshot"
    /\ IF env.shotOk
       THEN /\ Complete("screenshot")
            /\ fs' = screenshot(fs, ScreenshotPath, run)
       ELSE /\ Raise("screenshot", "Error")
            /\ UNCHANGED fs
    /\ UNCHANGED <<env, browserAlive, launched, pages, stdout, fsAtStart,
                   propagated, status, run>>

PrintSaved ==
    /\ pc = "print_saved"
    /\ Complete("print_saved")
    /\ stdout' = Append(stdout, SavedLine)
    /\ UNCHANGED <<env, browserAlive, launched, pages, fs, fsAtStart,
                   propagated, status, run>>

Close ==
    /\ pc = "close"
    /\ IF env.closeOk
       THEN /\ Complete("close")
            /\ browserAlive' = FALSE
       ELSE /\ Raise("close", "Error")
            /\ UNCHANGED browserAlive
    /\ UNCHANGED <<env, launched, pages, stdout, fs, fsAtStart,
                   propagated, status, run>>

\* End of the with block: __exit__ stops playwright and re-raises.
WithExit ==
    /\ pc = "with_exit"
    /\ browserAlive' = stop(browserAlive)
    /\ propagated' = exc
    /\ pc' = "main_exit"
    /\ UNCHANGED <<env, launched, pages, stdout, fs, fsAtStart, exc, status,
                   attempted, done, run>>

\* run() has returned or raised into the module-level caller.
MainExit ==
    /\ pc = "main_exit"
    /\ status' = exit_status(propagated)
    /\ pc' = "exited"
    /\ UNCHANGED <<env, browserAlive, launched, pages, stdout, fs, fsAtStart,
                   exc, propagated, attempted, done, run>>

\* The script is invoked again; only the disk survives the process.
NextRun ==
    /\ pc = "exited"
    /\ run < MaxRuns
    /\ run' = run + 1
    /\ env' \in Envs
    /\ pc' = "launch"
    /\ browserAlive' = browserAlive
    /\ launched' = 0
    /\ pages' = 0
    /\ stdout' = <<>>
    /\ fsAtStart' = fs
    /\ exc' = "none"
    /\ propagated' = "none"
    /\ status' = -1
    /\ attempted' = <<>>
    /\ done' = <<>>
    /\ UNCHANGED fs

Next ==
    \/ Launch
    \/ NewPage
    \/ Goto
    \/ ExpectEnabled
    \/ CheckVisible
    \/ Screenshot
    \/ PrintSaved
    \/ Close
    \/ WithExit
    \/ MainExit
    \/ NextRun

Spec == Init /\ [][Next]_vars

\* ------------------------------------------------------------ properties
Has(seq, x) == \E i \in 1..Len(seq) : seq[i] = x

IsPrefix(a, b) == Len(a) <= Len(b) /\ \A i \in 1..Len(a) : a[i] = b[i]

Finished == pc \in {"main_exit", "exited"}

NoneVisible(elems) == \A i \in 1..Len(elems) : ~elems[i]

SomeVisible(elems) == \E i \in 1..Len(elems) : elems[i]

ThisRunsFile == [path |-> ScreenshotPath, data |-> run]

StepOrder == <<"launch", "new_page", "goto", "expect", "check",
               "screenshot", "print_saved", "close">>

\* C1: once run() has returned or raised, the browser it launched is no
\* longer alive, whichever statement ended the run.
C1_BrowserClosedOnEveryExit == Finished => ~browserAlive

C1_Witness ==
    /\ pc = "exited"
    /\ launched = 1
    /\ propagated # "none"
    /\ ~Has(done, "close")

\* C2: when the readiness wait is performed and the button is not enabled
\* before the timeout, nothing is printed, the disk is as the run found it,
\* and run() raises, giving a failure status.
C2_TimeoutPath ==
    (Has(attempted, "expect") /\ ~EnabledInTime(env)) =>
        /\ stdout = <<>>
        /\ fs = fsAtStart
        /\ Finished => propagated # "none"
        /\ pc = "exited" => status # 0

C2_Witness ==
    /\ pc = "exited"
    /\ Has(attempted, "expect")
    /\ ~EnabledInTime(env)
    /\ fsAtStart # {}
    /\ status = 1

\* C3: when the button is enabled in time and no "Choose Background"
\* element is visible (capture and close themselves succeeding), the output
\* is exactly the PASS line then the saved line, the screenshot is written
\* and run() returns normally.
C3_PassPath ==
    (/\ pc = "exited"
     /\ Has(done, "expect")
     /\ NoneVisible(env.cb)
     /\ env.shotOk /\ env.closeOk) =>
        /\ stdout = <<PassLine, SavedLine>>
        /\ ThisRunsFile \in fs
        /\ propagated = "none"
        /\ status = 0

\* C4: when the button is enabled in time and a "Choose Background" element
\* is visible (capture and close themselves succeeding), the output is
\* exactly the FAIL line then the saved line, the screenshot is written and
\* run() returns normally.
C4_FailPath ==
    (/\ pc = "exited"
     /\ Has(done, "expect")
     /\ SomeVisible(env.cb)
     /\ env.shotOk /\ env.closeOk) =>
        /\ stdout = <<FailLine, SavedLine>>
        /\ ThisRunsFile \in fs
        /\ propagated = "none"
        /\ status = 0

\* C5: the exit status is zero exactly when every statement through
\* browser.close() completed, and non-zero exactly when an error left run();
\* a run that printed the saved line and closed the browser succeeds, a run
\* that skipped the screenshot fails.
C5_ExitStatus ==
    pc = "exited" =>
        /\ status = 0 <=> Has(done, "close")
        /\ status # 0 <=> propagated # "none"
        /\ (Has(stdout, SavedLine) /\ Has(done, "close")) => status = 0
        /\ ~Has(done, "screenshot") => status # 0

C5_Witness ==
    /\ pc = "exited"
    /\ stdout = <<FailLine, SavedLine>>
    /\ status = 0

\* C6: once the readiness wait has succeeded, the absence check never
\* raises: whatever elements match, it prints exactly one of the PASS/FAIL
\* lines and control continues to the screenshot.
C6_CheckNeverRaises ==
    Has(attempted, "check") =>
        /\ Has(done, "check")
        /\ Len(stdout) >= 1
        /\ stdout[1] \in {PassLine, FailLine}

\* C7 (as stated): the error leaving run() after a failed readiness wait is
\* a timeout error, so a handler for timeout errors catches it.
C7_TimeoutKind ==
    (Finished /\ Has(attempted, "expect") /\ ~Has(done, "expect")) =>
        IsInstance(propagated, "TimeoutError")

\* C7 (amended): the error leaving run() after a readiness wait that timed
\* out is an AssertionError, which is neither a playwright TimeoutError nor
\* a playwright Error.
C7_AssertionKind ==
    (Finished /\ Has(attempted, "expect") /\ ~Has(done, "expect")) =>
        /\ propagated = "AssertionError"
        /\ ~IsInstance(propagated, "TimeoutError")
        /\ ~IsInstance(propagated, "Error")

C7_Witness ==
    /\ pc = "exited"
    /\ Has(attempted, "expect")
    /\ ~Has(done, "expect")
    /\ ~EnabledInTime(env)

\* C8: when navigation fails, goto ran once, no later statement runs,
\* nothing is printed, the disk is untouched and the error that leaves
\* run() is the one goto raised.
C8_NavigationFailure ==
    (Has(attempted, "goto") /\ env.nav # "ok") =>
        /\ attempted = <<"launch", "new_page", "goto">>
        /\ done = <<"launch", "new_page">>
        /\ stdout = <<>>
        /\ fs = fsAtStart
        /\ exc = (IF env.nav = "refused" THEN "Error" ELSE "TimeoutError")
        /\ Finished => propagated = exc
        /\ pc = "exited" => status # 0

C8_Witness ==
    /\ pc = "exited"
    /\ env.nav = "refused"
    /\ Has(attempted, "goto")
    /\ fsAtStart # {}
    /\ propagated = "Error"

\* C9: the disk never holds anything but the one file at the fixed path: a
\* run whose screenshot succeeded leaves exactly that file with this run's
\* image, any other run leaves the disk as it found it, and a later
\* successful run leaves the same set of paths as an earlier one.
C9_SingleArtifact ==
    /\ \A f \in fs : f.path = ScreenshotPath
    /\ Cardinality(fs) <= 1
    /\ Has(done, "screenshot") => fs = {ThisRunsFile}
    /\ ~Has(done, "screenshot") => fs = fsAtStart
    /\ fsAtStart # {} => {f.path : f \in fs} = {f.path : f \in fsAtStart}

C9_Witness ==
    /\ run > 1
    /\ Has(done, "screenshot")
    /\ fsAtStart = {[path |-> ScreenshotPath, data |-> run - 1]}
    /\ fs = {ThisRunsFile}

\* C10: the statements of a run are attempted at most once each, in the
\* fixed order, each only after all earlier ones completed; nothing runs
\* after a failure; one browser and one page at most are created; the saved
\* line is printed only after the screenshot was written.
C10_LinearOrder ==
    /\ IsPrefix(attempted, StepOrder)
    /\ IsPrefix(done, attempted)
    /\ Len(attempted) <= Len(done) + 1
    /\ Len(attempted) > Len(done) <=> exc # "none"
    /\ exc # "none" => pc \in {"with_exit", "main_exit", "exited"}
    /\ launched = (IF Has(done, "launch") THEN 1 ELSE 0)
    /\ pages = (IF Has(done, "new_page") THEN 1 ELSE 0)
    /\ Has(stdout, SavedLine) => (Has(done, "screenshot") /\ ThisRunsFile \in fs)

C10_Witness ==
    /\ pc = "exited"
    /\ done = StepOrder
    /\ launched = 1
    /\ pages = 1
    /\ stdout = <<PassLine, SavedLine>>

====
